---- MODULE Spec2Model ----
(***************************************************************************)
(* DeltaGov: the versions/deltas store, the API's ComputeDiff and          *)
(* FetchAndStoreHR1, the ingestor's upsertBill / fetchAndStoreVersion, and  *)
(* the diff engine they call.                                               *)
(*                                                                          *)
(* A text is a sequence of one-character strings.  The character "X"        *)
(* stands for a block of maxDiffSize bytes holding no newline, so that a    *)
(* text above the size limit can be written down.                           *)
(***************************************************************************)
EXTENDS Integers, Sequences, FiniteSets, TLC

\* ------------------------------------------------------------------ bounds
NumProcs == 2
MaxVersions == 2
MaxTextVersions == 2
MaxEngineCalls == 2
MaxFetched == 2

\* ------------------------------------------------------- program constants
maxDiffSize == 100 * 1024
contextLines == 3
PlaceholderInsertions == 2500
PlaceholderDeletions == 1200

\* ------------------------------------------------------------ text helpers
NL == "\n"

Max2(a, b) == IF a >= b THEN a ELSE b

Width(c) == IF c = "X" THEN maxDiffSize ELSE 1

RECURSIVE ByteLen(_)
ByteLen(text) ==
    IF text = <<>> THEN 0 ELSE Width(Head(text)) + ByteLen(Tail(text))

RECURSIVE Concat(_)
Concat(seqs) ==
    IF seqs = <<>> THEN <<>> ELSE Head(seqs) \o Concat(Tail(seqs))

\* the index of the first newline of a text, 0 when it has none
FirstNL(text) ==
    LET at == {i \in 1..Len(text) : text[i] = NL}
    IN  IF at = {} THEN 0 ELSE CHOOSE i \in at : \A j \in at : i <= j

\* a split that drops the empty piece after a trailing newline
RECURSIVE SplitDropTrailing(_)
SplitDropTrailing(text) ==
    LET k == FirstNL(text)
    IN  IF text = <<>> THEN <<>>
        ELSE IF k = 0 THEN <<text>>
        ELSE <<SubSeq(text, 1, k - 1)>> \o SplitDropTrailing(SubSeq(text, k + 1, Len(text)))

\* strings.Split(text, "\n"): n newlines give n+1 pieces, terminators dropped
RECURSIVE Split(_)
Split(text) ==
    LET k == FirstNL(text)
    IN  IF k = 0 THEN <<text>>
        ELSE <<SubSeq(text, 1, k - 1)>> \o Split(SubSeq(text, k + 1, Len(text)))

\* go-udiff splitLines: SplitAfter on "\n", a trailing empty piece dropped
RECURSIVE splitLines(_)
splitLines(text) ==
    LET k == FirstNL(text)
    IN  IF text = <<>> THEN <<>>
        ELSE IF k = 0 THEN <<text>>
        ELSE <<SubSeq(text, 1, k)>> \o splitLines(SubSeq(text, k + 1, Len(text)))

HasPrefix(line, p) ==
    Len(line) >= Len(p) /\ SubSeq(line, 1, Len(p)) = p

HasSuffixNL(line) == line # <<>> /\ line[Len(line)] = NL

\* -------------------------------------------------------------- diff engine
ChangeInsert == "insert"
ChangeDelete == "delete"
ChangeUnchanged == "unchanged"

RECURSIVE LCS(_, _)
LCS(a, b) ==
    IF a = <<>> \/ b = <<>> THEN 0
    ELSE IF Head(a) = Head(b) THEN 1 + LCS(Tail(a), Tail(b))
    ELSE Max2(LCS(Tail(a), b), LCS(a, Tail(b)))

\* myers.ComputeEdits over the lines of both texts: a shortest edit script,
\* a deletion taken before an insertion where both are shortest.
RECURSIVE EditScript(_, _)
EditScript(a, b) ==
    IF a = <<>> /\ b = <<>> THEN <<>>
    ELSE IF a = <<>> THEN <<[kind |-> ChangeInsert, content |-> Head(b)]>> \o EditScript(a, Tail(b))
    ELSE IF b = <<>> THEN <<[kind |-> ChangeDelete, content |-> Head(a)]>> \o EditScript(Tail(a), b)
    ELSE IF Head(a) = Head(b)
         THEN <<[kind |-> ChangeUnchanged, content |-> Head(a)]>> \o EditScript(Tail(a), Tail(b))
    ELSE IF LCS(Tail(a), b) >= LCS(a, Tail(b))
         THEN <<[kind |-> ChangeDelete, content |-> Head(a)]>> \o EditScript(Tail(a), b)
         ELSE <<[kind |-> ChangeInsert, content |-> Head(b)]>> \o EditScript(a, Tail(b))

ComputeEdits(textA, textB) == EditScript(splitLines(textA), splitLines(textB))

IsChange(op) == op.kind # ChangeUnchanged

ChangeIdx(script) == {i \in 1..Len(script) : IsChange(script[i])}

\* first index of the hunk that the change at index i opens: up to
\* contextLines unchanged lines before it
HunkFrom(script, i) == Max2(1, i - contextLines)

HunkTo(script, j) == IF j + contextLines <= Len(script) THEN j + contextLines ELSE Len(script)

\* the change before index i, 0 when there is none
PrevChange(script, i) ==
    LET before == {k \in ChangeIdx(script) : k < i}
    IN  IF before = {} THEN 0 ELSE CHOOSE k \in before : \A m \in before : m <= k

\* the change after index j, 0 when there is none
NextChange(script, j) ==
    LET after == {k \in ChangeIdx(script) : k > j}
    IN  IF after = {} THEN 0 ELSE CHOOSE k \in after : \A m \in after : k <= m

\* a change opens a hunk when it is the first one or when more than
\* 2 * contextLines unchanged lines separate it from the change before it
OpensHunk(script, i) ==
    /\ i \in ChangeIdx(script)
    /\ \/ PrevChange(script, i) = 0
       \/ i - PrevChange(script, i) - 1 > 2 * contextLines

ClosesHunk(script, j) ==
    /\ j \in ChangeIdx(script)
    /\ \/ NextChange(script, j) = 0
       \/ NextChange(script, j) - j - 1 > 2 * contextLines

HunkHeader == <<"@", "@", " ", "#", " ", "@", "@", NL>>
FileHeader == <<"-", "-", "-", " ", "a", NL, "+", "+", "+", " ", "b", NL>>
NoNewlineMarker == <<NL, "\\", " ", "No newline at end of file", NL>>

OpPrefix(op) ==
    IF op.kind = ChangeInsert THEN "+" ELSE IF op.kind = ChangeDelete THEN "-" ELSE " "

UnifiedLine(op) ==
    <<OpPrefix(op)>> \o op.content \o (IF HasSuffixNL(op.content) THEN <<>> ELSE NoNewlineMarker)

RECURSIVE UnifiedLines(_, _, _)
UnifiedLines(script, i, j) ==
    IF i > j THEN <<>> ELSE UnifiedLine(script[i]) \o UnifiedLines(script, i + 1, j)

\* the close of the hunk opened at i: the first closing change at or after i
HunkClose(script, i) ==
    CHOOSE j \in ChangeIdx(script) :
        /\ j >= i
        /\ ClosesHunk(script, j)
        /\ \A q \in ChangeIdx(script) : (q >= i /\ q < j) => ~ClosesHunk(script, q)

RECURSIVE UnifiedFrom(_, _)
UnifiedFrom(script, i) ==
    IF i > Len(script) THEN <<>>
    ELSE IF OpensHunk(script, i)
         THEN LET j == HunkClose(script, i)
              IN  HunkHeader \o UnifiedLines(script, HunkFrom(script, i), HunkTo(script, j))
                    \o UnifiedFrom(script, j + 1)
         ELSE UnifiedFrom(script, i + 1)

\* udiff.ToUnified("a", "b", textA, edits, 3) as a string
ToUnified(script) ==
    IF ChangeIdx(script) = {} THEN <<>> ELSE FileHeader \o UnifiedFrom(script, 1)

\* ---- ComputeWordLevel: the walk over strings.Split(diffStr, "\n")
LineContent(line) == IF Len(line) > 1 THEN Tail(line) ELSE <<>>

ParseStart ==
    [Hunks |-> <<>>, open |-> FALSE, cur |-> [StartA |-> 0, StartB |-> 0, Lines |-> <<>>],
     lineNumA |-> 1, lineNumB |-> 1, Insertions |-> 0, Deletions |-> 0, Unchanged |-> 0]

ParseLine(st, line) ==
    IF Len(line) = 0 THEN st
    ELSE IF HasPrefix(line, <<"-", "-", "-">>) \/ HasPrefix(line, <<"+", "+", "+">>) THEN st
    ELSE IF HasPrefix(line, <<"@", "@">>)
         THEN [st EXCEPT !.Hunks = IF st.open THEN Append(st.Hunks, st.cur) ELSE st.Hunks,
                         !.open = TRUE,
                         !.cur = [StartA |-> st.lineNumA, StartB |-> st.lineNumB, Lines |-> <<>>]]
    ELSE IF ~st.open THEN st
    ELSE IF line[1] = "+"
         THEN [st EXCEPT !.cur.Lines = Append(st.cur.Lines,
                              [Type |-> ChangeInsert, Content |-> LineContent(line),
                               LineA |-> 0, LineB |-> st.lineNumB]),
                         !.Insertions = st.Insertions + 1,
                         !.lineNumB = st.lineNumB + 1]
    ELSE IF line[1] = "-"
         THEN [st EXCEPT !.cur.Lines = Append(st.cur.Lines,
                              [Type |-> ChangeDelete, Content |-> LineContent(line),
                               LineA |-> st.lineNumA, LineB |-> 0]),
                         !.Deletions = st.Deletions + 1,
                         !.lineNumA = st.lineNumA + 1]
    ELSE IF line[1] = " "
         THEN [st EXCEPT !.cur.Lines = Append(st.cur.Lines,
                              [Type |-> ChangeUnchanged, Content |-> LineContent(line),
                               LineA |-> st.lineNumA, LineB |-> st.lineNumB]),
                         !.Unchanged = st.Unchanged + 1,
                         !.lineNumA = st.lineNumA + 1,
                         !.lineNumB = st.lineNumB + 1]
    ELSE st

RECURSIVE ParseLines(_, _)
ParseLines(st, lines) ==
    IF lines = <<>> THEN st ELSE ParseLines(ParseLine(st, Head(lines)), Tail(lines))

\* the hunk of all lines as unchanged, added when the walk produced no hunk
AllUnchangedHunk(linesA, linesB) ==
    [StartA |-> 1, StartB |-> 1,
     Lines |-> [i \in 1..Max2(Len(linesA), Len(linesB)) |->
                  [Type |-> ChangeUnchanged,
                   Content |-> IF i <= Len(linesA) THEN linesA[i] ELSE linesB[i],
                   LineA |-> i, LineB |-> i]]]

\* the walk alone, without the hunk of unchanged lines for equal texts
ComputeWordLevelNoFallback(textA, textB) ==
    LET diffStr == ToUnified(ComputeEdits(textA, textB))
        st == ParseLines(ParseStart, Split(diffStr))
        hunks == IF st.open /\ Len(st.cur.Lines) > 0 THEN Append(st.Hunks, st.cur) ELSE st.Hunks
    IN  [Hunks |-> hunks, Insertions |-> st.Insertions,
         Deletions |-> st.Deletions, Unchanged |-> st.Unchanged]

ComputeWordLevel(textA, textB) ==
    LET linesA == Split(textA)
        linesB == Split(textB)
        diffStr == ToUnified(ComputeEdits(textA, textB))
        st == ParseLines(ParseStart, Split(diffStr))
        hunks == IF st.open /\ Len(st.cur.Lines) > 0 THEN Append(st.Hunks, st.cur) ELSE st.Hunks
    IN  IF Len(hunks) = 0
        THEN [Hunks |-> <<AllUnchangedHunk(linesA, linesB)>>,
              Insertions |-> st.Insertions, Deletions |-> st.Deletions,
              Unchanged |-> st.Unchanged + Max2(Len(linesA), Len(linesB))]
        ELSE [Hunks |-> hunks, Insertions |-> st.Insertions,
              Deletions |-> st.Deletions, Unchanged |-> st.Unchanged]

\* ---- Compute: the counts only, read off the unified diff
CountStart == [Insertions |-> 0, Deletions |-> 0, Unchanged |-> 0]

CountLine(st, line) ==
    IF Len(line) = 0 THEN st
    ELSE IF line[1] = "+"
         THEN IF HasPrefix(line, <<"+", "+", "+">>) THEN st
              ELSE [st EXCEPT !.Insertions = st.Insertions + 1]
    ELSE IF line[1] = "-"
         THEN IF HasPrefix(line, <<"-", "-", "-">>) THEN st
              ELSE [st EXCEPT !.Deletions = st.Deletions + 1]
    ELSE IF line[1] = " " THEN [st EXCEPT !.Unchanged = st.Unchanged + 1]
    ELSE st

RECURSIVE CountLines(_, _)
CountLines(st, lines) ==
    IF lines = <<>> THEN st ELSE CountLines(CountLine(st, Head(lines)), Tail(lines))

Compute(textA, textB) ==
    LET linesA == Split(textA)
        linesB == Split(textB)
        unifiedDiff == ToUnified(ComputeEdits(textA, textB))
        st == CountLines(CountStart, Split(unifiedDiff))
    IN  [Hunks |-> <<>>, Insertions |-> st.Insertions, Deletions |-> st.Deletions,
         Unchanged |-> IF st.Insertions = 0 /\ st.Deletions = 0 /\ st.Unchanged = 0
                       THEN Max2(Len(linesA), Len(linesB))
                       ELSE st.Unchanged]

\* ------------------------------------------------------- upstream and store
Procs == 1..NumProcs
VersionIDs == 1..MaxVersions

TxtA == <<"a">>
TxtAB == <<"a", NL, "b">>
TxtBig == <<"X", "a">>
Contents == {TxtA, TxtAB, TxtBig}
SmallContents == {TxtA, TxtAB}

HR1Key == [Congress |-> 119, BillType |-> "hr", BillNumber |-> 1]
BillKeys == {HR1Key}
UpdateDates == {"2025-01-03", "2025-02-01"}
TextTypes == {"Introduced in House", "Engrossed in House"}
IngestTypes == {"Introduced in House"}

\* sha256 + hex: equal content gives the equal digest, different content a
\* different one
ComputeHash(content) == <<"sha256">> \o content

extractVersionCode(typeStr) ==
    CASE typeStr = "Introduced in House" -> "IH"
      [] typeStr = "Engrossed in House" -> "EH"
      [] OTHER -> typeStr

VARIABLES bills, versions, deltas, engineCalls, procs

vars == <<bills, versions, deltas, engineCalls, procs>>

NoVersion == [BillID |-> 0, VersionCode |-> "", ContentHash |-> <<>>, TextContent |-> <<>>]
NoDelta == [Hunks |-> <<>>, Insertions |-> 0, Deletions |-> 0, Unchanged |-> 0]
NoRet == [ok |-> FALSE, err |-> "none"]
NoApiBill == [key |-> HR1Key, UpdateDate |-> ""]
NoParams == [Congress |-> 0, BillType |-> "", Limit |-> 0, Offset |-> 0]

\* the IngestResult of a run of IngestRecentBills and the position of the run:
\* remaining counts the fetched bills the loop has yet to take, processed the
\* calls of upsertBill that have returned
NoRun ==
    [pc |-> "idle", err |-> "none", remaining |-> 0, processed |-> 0,
     BillsFetched |-> 0, BillsCreated |-> 0, BillsUpdated |-> 0, VersionsCreated |-> 0,
     Errors |-> <<>>]

\* the ingestor's main: where it is (off, in the single run, in the initial
\* run, at the select, in a run started by a tick, exited), the mode flag,
\* the context, the signal channel and its goroutine, the ticker channel;
\* runs tells whether no, one or more calls of runIngestion have returned
NoMain ==
    [pc |-> "off", singleRun |-> FALSE, cancelled |-> FALSE, sigChan |-> FALSE,
     signalled |-> FALSE, handler |-> "waiting", tick |-> FALSE, runs |-> "none",
     exit |-> "none"]

IdleProc ==
    [op |-> "none", pc |-> "idle",
     from |-> 0, to |-> 0, fromVersion |-> NoVersion, toVersion |-> NoVersion,
     delta |-> NoDelta,
     apiBill |-> NoApiBill, billID |-> 0, existing |-> FALSE, existingUpdateDate |-> "",
     created |-> FALSE, updated |-> FALSE, remaining |-> 0, version |-> NoVersion,
     ret |-> NoRet,
     sawRow |-> FALSE, sawReverse |-> FALSE, cancelled |-> FALSE,
     params |-> NoParams, run |-> NoRun, main |-> NoMain]

Err(msg) == [ok |-> FALSE, err |-> msg]

\* ---- queries of the store
BillByKey(key) == {i \in 1..Len(bills) : bills[i].key = key}
VersionsOfBill(billID) == {i \in 1..Len(versions) : versions[i].BillID = billID}
VersionByHash(billID, hash) ==
    {i \in VersionsOfBill(billID) : versions[i].ContentHash = hash}
VersionByCode(billID, code) ==
    {i \in VersionsOfBill(billID) : versions[i].VersionCode = code}
DeltaRows(a, b) ==
    {i \in 1..Len(deltas) : deltas[i].VersionAID = a /\ deltas[i].VersionBID = b}
\* First(): the matching row of the lowest primary key
First(rows) == CHOOSE i \in rows : \A j \in rows : i <= j

TotalEngineCalls ==
    LET RECURSIVE Sum(_)
        Sum(S) == IF S = {} THEN 0
                  ELSE LET x == CHOOSE y \in S : TRUE IN engineCalls[x] + Sum(S \ {x})
    IN  Sum(DOMAIN engineCalls)

Init ==
    /\ bills = <<>>
    /\ versions = <<>>
    /\ deltas = <<>>
    /\ engineCalls = [pr \in VersionIDs \X VersionIDs |-> 0]
    /\ procs = [p \in Procs |-> IdleProc]

\* the handler returned and the goroutine serves the next request
Return(p) ==
    /\ procs[p].pc = "done"
    /\ procs' = [procs EXCEPT ![p] = IdleProc]
    /\ UNCHANGED <<bills, versions, deltas, engineCalls>>
\* ---------------------------------------------------------------- ComputeDiff
ResponseType(changeType) ==
    IF changeType = ChangeInsert THEN "insertion"
    ELSE IF changeType = ChangeDelete THEN "deletion"
    ELSE "unchanged"

\* the changes of all hunks in order
HunkChanges(hunks) == Concat([i \in 1..Len(hunks) |-> hunks[i].Lines])

\* the response built from a freshly computed delta
ComputedResponse(delta, fromCode, toCode) ==
    LET changes == HunkChanges(delta.Hunks)
    IN  [ok |-> TRUE, FromVersion |-> fromCode, ToVersion |-> toCode,
         Insertions |-> delta.Insertions, Deletions |-> delta.Deletions,
         Lines |-> [i \in 1..Len(changes) |->
                      [LineNumber |-> i, Type |-> ResponseType(changes[i].Type),
                       Text |-> changes[i].Content]],
         Segments |-> [i \in 1..Len(changes) |->
                         [Type |-> ResponseType(changes[i].Type),
                          Text |-> changes[i].Content]]]

deltaToResponse(delta, fromCode, toCode) ==
    [ok |-> TRUE, FromVersion |-> fromCode, ToVersion |-> toCode,
     Insertions |-> delta.Insertions, Deletions |-> delta.Deletions,
     Lines |-> <<>>, Segments |-> <<>>]

PlaceholderLine(n, type, text) == [LineNumber |-> n, Type |-> type, Text |-> <<text>>]

PlaceholderLines ==
    << PlaceholderLine(1, "unchanged", "SECTION 1. SHORT TITLE."),
       PlaceholderLine(2, "unchanged", "This Act may be cited as the \"One Big Beautiful Bill Act\"."),
       PlaceholderLine(3, "unchanged", ""),
       PlaceholderLine(4, "unchanged", "SECTION 2. APPROPRIATIONS."),
       PlaceholderLine(5, "deletion", "(a) There is appropriated $500,000,000,000 for federal programs."),
       PlaceholderLine(6, "insertion", "(a) There is appropriated $750,000,000,000 for federal programs."),
       PlaceholderLine(7, "unchanged", ""),
       PlaceholderLine(8, "deletion", "(b) Funds shall be distributed over a period of 5 years."),
       PlaceholderLine(9, "insertion", "(b) Funds shall be distributed over a period of 10 years."),
       PlaceholderLine(10, "unchanged", ""),
       PlaceholderLine(11, "insertion", "(c) Priority shall be given to infrastructure projects."),
       PlaceholderLine(12, "insertion", "(d) Annual reporting requirements established."),
       PlaceholderLine(13, "unchanged", ""),
       PlaceholderLine(14, "unchanged", "SECTION 3. OVERSIGHT."),
       PlaceholderLine(15, "unchanged", "The Government Accountability Office shall conduct quarterly audits."),
       PlaceholderLine(16, "unchanged", ""),
       PlaceholderLine(17, "unchanged", "[Note: Full diff computation disabled for large bills (>100KB). This is sample data.]") >>

PlaceholderSegments ==
    << [Type |-> "unchanged", Text |-> <<"SECTION 1. SHORT TITLE.\n">>],
       [Type |-> "deletion", Text |-> <<"$500,000,000,000">>],
       [Type |-> "insertion", Text |-> <<"$750,000,000,000">>],
       [Type |-> "unchanged", Text |-> <<" for federal programs.">>] >>

PlaceholderResponse(fromCode, toCode) ==
    [ok |-> TRUE, FromVersion |-> fromCode, ToVersion |-> toCode,
     Insertions |-> PlaceholderInsertions, Deletions |-> PlaceholderDeletions,
     Lines |-> PlaceholderLines, Segments |-> PlaceholderSegments]

\* len(fromVersion.TextContent) > maxDiffSize || len(toVersion.TextContent) > maxDiffSize
TooLarge(fromVersion, toVersion) ==
    ByteLen(fromVersion.TextContent) > maxDiffSize \/ ByteLen(toVersion.TextContent) > maxDiffSize

\* a row keyed by the ordered pair of ids while the counts stay in the
\* direction of the request
StoredDeltaNormalized(fromVersionID, toVersionID, delta) ==
    [VersionAID |-> IF fromVersionID <= toVersionID THEN fromVersionID ELSE toVersionID,
     VersionBID |-> IF fromVersionID <= toVersionID THEN toVersionID ELSE fromVersionID,
     Insertions |-> delta.Insertions, Deletions |-> delta.Deletions]

\* the row ComputeDiff stores for a computed delta
StoredDelta(fromVersionID, toVersionID, delta) ==
    [VersionAID |-> fromVersionID, VersionBID |-> toVersionID,
     Insertions |-> delta.Insertions, Deletions |-> delta.Deletions]

\* db.Create(&storedDelta)
CreateDelta(rows, row) == Append(rows, row)

\* the request arrives; both versions are loaded by primary key
ComputeDiffLoad(p, fromVersionID, toVersionID, failed) ==
    /\ procs[p].pc = "idle"
    /\ LET me == [IdleProc EXCEPT !.op = "ComputeDiff", !.from = fromVersionID, !.to = toVersionID]
       IN  IF failed = "from" \/ fromVersionID > Len(versions)
           THEN procs' = [procs EXCEPT ![p] =
                    [me EXCEPT !.pc = "done", !.ret = Err("from version not found")]]
           ELSE IF failed = "to" \/ toVersionID > Len(versions)
           THEN procs' = [procs EXCEPT ![p] =
                    [me EXCEPT !.pc = "done", !.ret = Err("to version not found")]]
           ELSE procs' = [procs EXCEPT ![p] =
                    [me EXCEPT !.pc = "cd_lookup",
                               !.fromVersion = versions[fromVersionID],
                               !.toVersion = versions[toVersionID],
                               !.sawRow = DeltaRows(fromVersionID, toVersionID) # {},
                               !.sawReverse = DeltaRows(toVersionID, fromVersionID) # {}]]
    /\ UNCHANGED <<bills, versions, deltas, engineCalls>>

\* "Check if we have a cached delta": any error of the query, a failed one
\* included, falls through to the computation
ComputeDiffLookup(p, dbOk) ==
    /\ procs[p].pc = "cd_lookup"
    /\ LET me == procs[p]
           rows == DeltaRows(me.from, me.to)
       IN  IF dbOk /\ rows # {}
           THEN procs' = [procs EXCEPT ![p] =
                    [me EXCEPT !.pc = "done",
                               !.ret = deltaToResponse(deltas[First(rows)],
                                         me.fromVersion.VersionCode, me.toVersion.VersionCode)]]
           ELSE procs' = [procs EXCEPT ![p] =
                    [me EXCEPT !.pc = "cd_compute"]]
    /\ UNCHANGED <<bills, versions, deltas, engineCalls>>

\* a size check that caches the placeholder result like a computed delta
ComputeDiffComputeCaching(p) ==
    /\ procs[p].pc = "cd_compute"
    /\ LET me == procs[p]
       IN  IF TooLarge(me.fromVersion, me.toVersion)
           THEN /\ procs' = [procs EXCEPT ![p] =
                      [me EXCEPT !.pc = "done",
                                 !.ret = PlaceholderResponse(me.fromVersion.VersionCode,
                                                             me.toVersion.VersionCode)]]
                /\ deltas' = CreateDelta(deltas,
                                 StoredDelta(me.from, me.to,
                                             [Insertions |-> PlaceholderInsertions,
                                              Deletions |-> PlaceholderDeletions]))
                /\ UNCHANGED engineCalls
           ELSE /\ TotalEngineCalls < MaxEngineCalls
                /\ procs' = [procs EXCEPT ![p] =
                      [me EXCEPT !.pc = "cd_store",
                                 !.delta = ComputeWordLevel(me.fromVersion.TextContent,
                                                            me.toVersion.TextContent)]]
                /\ engineCalls' = [engineCalls EXCEPT ![<<me.from, me.to>>] = @ + 1]
                /\ UNCHANGED deltas
    /\ UNCHANGED <<bills, versions>>

\* the size check, then the diff engine
ComputeDiffCompute(p) ==
    /\ procs[p].pc = "cd_compute"
    /\ LET me == procs[p]
       IN  IF TooLarge(me.fromVersion, me.toVersion)
           THEN /\ procs' = [procs EXCEPT ![p] =
                      [me EXCEPT !.pc = "done",
                                 !.ret = PlaceholderResponse(me.fromVersion.VersionCode,
                                                             me.toVersion.VersionCode)]]
                /\ UNCHANGED engineCalls
           ELSE /\ TotalEngineCalls < MaxEngineCalls
                /\ procs' = [procs EXCEPT ![p] =
                      [me EXCEPT !.pc = "cd_store",
                                 !.delta = ComputeWordLevel(me.fromVersion.TextContent,
                                                            me.toVersion.TextContent)]]
                /\ engineCalls' = [engineCalls EXCEPT ![<<me.from, me.to>>] = @ + 1]
    /\ UNCHANGED <<bills, versions, deltas>>

\* a store step that passes the request's context to the database: once the
\* caller is gone the insert is refused and the call fails
ComputeDiffStoreCtx(p, dbOk) ==
    /\ procs[p].pc = "cd_store"
    /\ LET me == procs[p]
       IN  /\ IF dbOk /\ ~me.cancelled
              THEN deltas' = CreateDelta(deltas, StoredDelta(me.from, me.to, me.delta))
              ELSE UNCHANGED deltas
           /\ procs' = [procs EXCEPT ![p] =
                 [me EXCEPT !.pc = "done",
                            !.ret = IF me.cancelled THEN Err("context canceled")
                                    ELSE ComputedResponse(me.delta, me.fromVersion.VersionCode,
                                                          me.toVersion.VersionCode)]]
    /\ UNCHANGED <<bills, versions, engineCalls>>

\* "Store the delta for caching" (the result of Create is not looked at),
\* then the response is built from the computed delta
ComputeDiffStore(p, dbOk) ==
    /\ procs[p].pc = "cd_store"
    /\ LET me == procs[p]
       IN  /\ IF dbOk
              THEN deltas' = CreateDelta(deltas, StoredDelta(me.from, me.to, me.delta))
              ELSE UNCHANGED deltas
           /\ procs' = [procs EXCEPT ![p] =
                 [me EXCEPT !.pc = "done",
                            !.ret = ComputedResponse(me.delta, me.fromVersion.VersionCode,
                                                     me.toVersion.VersionCode)]]
    /\ UNCHANGED <<bills, versions, engineCalls>>

\* ------------------------------------------- ingestor: upsertBill and its version
\* a bills table without the unique index: every insert is taken
CanCreateBillNoIndex(key) == TRUE

\* db.Create(&bill); the unique index idx_bill_unique rejects a second row of a key
CanCreateBill(key) == BillByKey(key) = {}
CreateBill(rows, row) == Append(rows, row)

\* INSERT ... ON CONFLICT (congress, bill_number, bill_type) DO UPDATE
UpdateBill(rows, key, updateDate) ==
    IF BillByKey(key) = {} THEN Append(rows, [key |-> key, UpdateDate |-> updateDate])
    ELSE [i \in 1..Len(rows) |->
            IF rows[i].key = key THEN [rows[i] EXCEPT !.UpdateDate = updateDate] ELSE rows[i]]

\* a save that replaces the stored version of the same bill and version code
CreateVersionUpsert(rows, row) ==
    LET same == {i \in 1..Len(rows) : rows[i].BillID = row.BillID
                                       /\ rows[i].VersionCode = row.VersionCode}
    IN  IF same = {} THEN Append(rows, row)
        ELSE [i \in 1..Len(rows) |-> IF i \in same THEN row ELSE rows[i]]

\* db.Create(&version)
CreateVersion(rows, row) == Append(rows, row)

\* a result that hands the error of fetchAndStoreVersion to the caller
UpsertResultFailing(me, versionCreated, versionErr) ==
    IF versionErr THEN Err("failed to fetch version")
    ELSE [ok |-> TRUE, created |-> me.created, updated |-> me.updated,
          versionCreated |-> versionCreated, versionErr |-> versionErr]

UpsertResult(me, versionCreated, versionErr) ==
    [ok |-> TRUE, created |-> me.created, updated |-> me.updated,
     versionCreated |-> versionCreated, versionErr |-> versionErr]

\* "Check if bill exists"
UpsertBillQuery(p, apiBill, dbOk) ==
    /\ procs[p].pc = "idle"
    /\ LET me == [IdleProc EXCEPT !.op = "upsertBill", !.apiBill = apiBill,
                                  !.run = procs[p].run, !.main = procs[p].main]
           found == BillByKey(apiBill.key)
       IN  IF ~dbOk
           THEN procs' = [procs EXCEPT ![p] =
                    [me EXCEPT !.pc = "done", !.ret = Err("failed to query bill")]]
           ELSE IF found = {}
           THEN procs' = [procs EXCEPT ![p] = [me EXCEPT !.pc = "ub_write"]]
           ELSE procs' = [procs EXCEPT ![p] =
                    [me EXCEPT !.pc = "ub_write", !.existing = TRUE,
                               !.billID = First(found),
                               !.existingUpdateDate = bills[First(found)].UpdateDate]]
    /\ UNCHANGED <<bills, versions, deltas, engineCalls>>

\* a write step that upserts every existing bill, changed or not
UpsertBillWriteAlways(p, dbOk) ==
    /\ procs[p].pc = "ub_write"
    /\ LET me == procs[p]
           key == me.apiBill.key
       IN  IF ~me.existing
           THEN IF dbOk /\ CanCreateBill(key)
                THEN /\ bills' = CreateBill(bills, [key |-> key, UpdateDate |-> me.apiBill.UpdateDate])
                     /\ procs' = [procs EXCEPT ![p] =
                           [me EXCEPT !.pc = "fv_fetch", !.created = TRUE,
                                      !.billID = Len(bills) + 1]]
                ELSE /\ UNCHANGED bills
                     /\ procs' = [procs EXCEPT ![p] =
                           [me EXCEPT !.pc = "done", !.ret = Err("failed to create bill")]]
           ELSE IF dbOk
                THEN /\ bills' = UpdateBill(bills, key, me.apiBill.UpdateDate)
                     /\ procs' = [procs EXCEPT ![p] =
                           [me EXCEPT !.pc = "fv_fetch", !.updated = TRUE]]
                ELSE /\ UNCHANGED bills
                     /\ procs' = [procs EXCEPT ![p] =
                           [me EXCEPT !.pc = "done", !.ret = Err("failed to update bill")]]
    /\ UNCHANGED <<versions, deltas, engineCalls>>

\* create the new bill, update the existing one when UpdateDate changed, or
\* leave it
UpsertBillWrite(p, dbOk) ==
    /\ procs[p].pc = "ub_write"
    /\ LET me == procs[p]
           key == me.apiBill.key
       IN  IF ~me.existing
           THEN IF dbOk /\ CanCreateBill(key)
                THEN /\ bills' = CreateBill(bills, [key |-> key, UpdateDate |-> me.apiBill.UpdateDate])
                     /\ procs' = [procs EXCEPT ![p] =
                           [me EXCEPT !.pc = "fv_fetch", !.created = TRUE,
                                      !.billID = Len(bills) + 1]]
                ELSE /\ UNCHANGED bills
                     /\ procs' = [procs EXCEPT ![p] =
                           [me EXCEPT !.pc = "done", !.ret = Err("failed to create bill")]]
           ELSE IF me.existingUpdateDate # me.apiBill.UpdateDate
           THEN IF dbOk
                THEN /\ bills' = UpdateBill(bills, key, me.apiBill.UpdateDate)
                     /\ procs' = [procs EXCEPT ![p] =
                           [me EXCEPT !.pc = "fv_fetch", !.updated = TRUE]]
                ELSE /\ UNCHANGED bills
                     /\ procs' = [procs EXCEPT ![p] =
                           [me EXCEPT !.pc = "done", !.ret = Err("failed to update bill")]]
           ELSE /\ UNCHANGED bills
                /\ procs' = [procs EXCEPT ![p] = [me EXCEPT !.pc = "fv_fetch"]]
    /\ UNCHANGED <<versions, deltas, engineCalls>>

\* fetchAndStoreVersion up to "Check if we already have this exact version":
\* outcome is what Congress.gov answered (an error, no text, or a text)
FetchVersionCheck(p, outcome, type, content, dbOk) ==
    /\ procs[p].pc = "fv_fetch"
    /\ LET me == procs[p]
           contentHash == ComputeHash(content)
       IN  IF outcome = "error"
           THEN procs' = [procs EXCEPT ![p] =
                    [me EXCEPT !.pc = "done", !.ret = UpsertResult(me, FALSE, TRUE)]]
           ELSE IF outcome = "none"
           THEN procs' = [procs EXCEPT ![p] =
                    [me EXCEPT !.pc = "done", !.ret = UpsertResult(me, FALSE, FALSE)]]
           ELSE IF ~dbOk
           THEN procs' = [procs EXCEPT ![p] =
                    [me EXCEPT !.pc = "done", !.ret = UpsertResult(me, FALSE, TRUE)]]
           ELSE IF VersionByHash(me.billID, contentHash) # {}
           THEN procs' = [procs EXCEPT ![p] =
                    [me EXCEPT !.pc = "done", !.ret = UpsertResult(me, FALSE, FALSE)]]
           ELSE procs' = [procs EXCEPT ![p] =
                    [me EXCEPT !.pc = "fv_create",
                               !.version = [BillID |-> me.billID, VersionCode |-> type,
                                            ContentHash |-> contentHash,
                                            TextContent |-> content]]]
    /\ UNCHANGED <<bills, versions, deltas, engineCalls>>

\* "Create new version"
FetchVersionCreate(p, dbOk) ==
    /\ procs[p].pc = "fv_create"
    /\ LET me == procs[p]
       IN  IF dbOk
           THEN /\ Len(versions) < MaxVersions
                /\ versions' = CreateVersion(versions, me.version)
                /\ procs' = [procs EXCEPT ![p] =
                      [me EXCEPT !.pc = "done", !.ret = UpsertResult(me, TRUE, FALSE)]]
           ELSE /\ UNCHANGED versions
                /\ procs' = [procs EXCEPT ![p] =
                      [me EXCEPT !.pc = "done", !.ret = UpsertResult(me, FALSE, TRUE)]]
    /\ UNCHANGED <<bills, deltas, engineCalls>>

\* ------------------------------------------------------------ FetchAndStoreHR1
\* the versions of the response carry no order here
GetBillWithVersions(billID) ==
    [ok |-> TRUE, ID |-> billID, UpdateDate |-> bills[billID].UpdateDate,
     Versions |-> {[ID |-> i, VersionCode |-> versions[i].VersionCode,
                    ContentHash |-> versions[i].ContentHash] : i \in VersionsOfBill(billID)}]

\* "Check if we already have this bill in the database"; with at least one
\* version the stored bill is returned
HR1Check(p, dbOk, countOk, getOk) ==
    /\ procs[p].pc = "idle"
    /\ LET me == [IdleProc EXCEPT !.op = "FetchAndStoreHR1",
                                  !.apiBill = [key |-> HR1Key, UpdateDate |-> ""]]
           found == BillByKey(HR1Key)
       IN  IF dbOk /\ found # {}
           THEN IF countOk /\ VersionsOfBill(First(found)) # {}
                THEN procs' = [procs EXCEPT ![p] =
                         [me EXCEPT !.pc = "done",
                                    !.ret = IF getOk THEN GetBillWithVersions(First(found))
                                            ELSE Err("bill not found")]]
                ELSE procs' = [procs EXCEPT ![p] =
                         [me EXCEPT !.pc = "hr_upsert", !.existing = TRUE,
                                    !.billID = First(found)]]
           ELSE procs' = [procs EXCEPT ![p] = [me EXCEPT !.pc = "hr_upsert"]]
    /\ UNCHANGED <<bills, versions, deltas, engineCalls>>

\* GetBillDetail, "Upsert the bill", GetBillTextWithContent
HR1Upsert(p, detailOk, updateDate, dbOk, textsOk, n) ==
    /\ procs[p].pc = "hr_upsert"
    /\ LET me == procs[p]
       IN  IF ~detailOk
           THEN /\ UNCHANGED bills
                /\ procs' = [procs EXCEPT ![p] =
                      [me EXCEPT !.pc = "done", !.ret = Err("failed to fetch bill details")]]
           ELSE IF ~me.existing /\ ~(dbOk /\ CanCreateBill(HR1Key))
           THEN /\ UNCHANGED bills
                /\ procs' = [procs EXCEPT ![p] =
                      [me EXCEPT !.pc = "done", !.ret = Err("failed to create bill")]]
           ELSE IF me.existing /\ ~dbOk
           THEN /\ UNCHANGED bills
                /\ procs' = [procs EXCEPT ![p] =
                      [me EXCEPT !.pc = "done", !.ret = Err("failed to update bill")]]
           ELSE /\ bills' = IF me.existing
                            THEN [bills EXCEPT ![me.billID].UpdateDate = updateDate]
                            ELSE CreateBill(bills, [key |-> HR1Key, UpdateDate |-> updateDate])
                /\ procs' = [procs EXCEPT ![p] =
                      IF textsOk
                      THEN [me EXCEPT !.pc = "hr_loop", !.remaining = n,
                                      !.billID = IF me.existing THEN me.billID ELSE Len(bills) + 1]
                      ELSE [me EXCEPT !.pc = "done", !.ret = Err("failed to fetch text versions")]]
    /\ UNCHANGED <<versions, deltas, engineCalls>>

\* one text version of the loop: "Check if version already exists"
HR1CheckVersion(p, type, content, dbOk) ==
    /\ procs[p].pc = "hr_loop"
    /\ procs[p].remaining > 0
    /\ LET me == procs[p]
           versionCode == extractVersionCode(type)
       IN  IF dbOk /\ VersionByCode(me.billID, versionCode) # {}
           THEN procs' = [procs EXCEPT ![p] = [me EXCEPT !.remaining = @ - 1]]
           ELSE procs' = [procs EXCEPT ![p] =
                    [me EXCEPT !.pc = "hr_create",
                               !.version = [BillID |-> me.billID, VersionCode |-> versionCode,
                                            ContentHash |-> ComputeHash(content),
                                            TextContent |-> content]]]
    /\ UNCHANGED <<bills, versions, deltas, engineCalls>>

\* db.Create(&version) of the loop; a failure is logged and the loop goes on
HR1CreateVersion(p, dbOk) ==
    /\ procs[p].pc = "hr_create"
    /\ LET me == procs[p]
       IN  /\ IF dbOk
              THEN /\ Len(versions) < MaxVersions
                   /\ versions' = CreateVersion(versions, me.version)
              ELSE UNCHANGED versions
           /\ procs' = [procs EXCEPT ![p] =
                 [me EXCEPT !.pc = "hr_loop", !.remaining = @ - 1, !.version = NoVersion]]
    /\ UNCHANGED <<bills, deltas, engineCalls>>

\* return s.GetBillWithVersions(ctx, bill.ID)
HR1Finish(p, getOk) ==
    /\ procs[p].pc = "hr_loop"
    /\ procs[p].remaining = 0
    /\ procs' = [procs EXCEPT ![p] =
          [@ EXCEPT !.pc = "done",
                    !.ret = IF getOk THEN GetBillWithVersions(procs[p].billID)
                            ELSE Err("bill not found")]]
    /\ UNCHANGED <<bills, versions, deltas, engineCalls>>

\* ------------------------------------------------------------ specification
ApiBills == [key : BillKeys, UpdateDate : UpdateDates]
LoadFailures == {"none", "from", "to"}
FetchOutcomes == {"error", "none", "text"}

\* no other handler is in flight
Quiet(p) == \A q \in Procs \ {p} : procs[q].pc = "idle"

ComputeDiffStep(p) ==
    \/ \E a \in VersionIDs, b \in VersionIDs, f \in LoadFailures : ComputeDiffLoad(p, a, b, f)
    \/ \E dbOk \in BOOLEAN : ComputeDiffLookup(p, dbOk)
    \/ ComputeDiffCompute(p)
    \/ \E dbOk \in BOOLEAN : ComputeDiffStore(p, dbOk)

UpsertBillStep(p, contents) ==
    \/ \E ab \in ApiBills, dbOk \in BOOLEAN : UpsertBillQuery(p, ab, dbOk)
    \/ \E dbOk \in BOOLEAN : UpsertBillWrite(p, dbOk)
    \/ \E o \in FetchOutcomes, t \in IngestTypes, c \in contents, dbOk \in BOOLEAN :
          FetchVersionCheck(p, o, t, c, dbOk)
    \/ \E dbOk \in BOOLEAN : FetchVersionCreate(p, dbOk)

HR1Step(p, contents) ==
    \/ \E dbOk \in BOOLEAN, countOk \in BOOLEAN, getOk \in BOOLEAN : HR1Check(p, dbOk, countOk, getOk)
    \/ \E detailOk \in BOOLEAN, d \in UpdateDates, dbOk \in BOOLEAN, textsOk \in BOOLEAN,
          n \in 0..MaxTextVersions : HR1Upsert(p, detailOk, d, dbOk, textsOk, n)
    \/ \E t \in TextTypes, c \in contents, dbOk \in BOOLEAN : HR1CheckVersion(p, t, c, dbOk)
    \/ \E dbOk \in BOOLEAN : HR1CreateVersion(p, dbOk)
    \/ \E getOk \in BOOLEAN : HR1Finish(p, getOk)

\* ---- the API and the ingestor over one store, one request at a time; a
\* diff request compares a version with a later one
Next ==
    \E p \in Procs :
        /\ Quiet(p)
        /\ \/ (ComputeDiffStep(p) /\ procs'[p].from < procs'[p].to)
           \/ UpsertBillStep(p, Contents)
           \/ HR1Step(p, Contents)
           \/ Return(p)

Spec == Init /\ [][Next]_vars

\* ---- concurrent ingestion: the ingestor and GET /api/v1/bills/hr1 handlers
NextIngest ==
    \E p \in Procs :
        \/ UpsertBillStep(p, SmallContents)
        \/ HR1Step(p, SmallContents)
        \/ Return(p)

SpecIngest == Init /\ [][NextIngest]_vars

\* ---- concurrent ingestion while Congress.gov has no text of the bill: the
\* handlers query and write the bills table and store no version
NextBills ==
    \E p \in Procs :
        \/ \E ab \in ApiBills, dbOk \in BOOLEAN : UpsertBillQuery(p, ab, dbOk)
        \/ \E dbOk \in BOOLEAN : UpsertBillWrite(p, dbOk)
        \/ \E o \in {"error", "none"} :
              FetchVersionCheck(p, o, "Introduced in House", TxtA, TRUE)
        \/ \E dbOk \in BOOLEAN, countOk \in BOOLEAN, getOk \in BOOLEAN :
              HR1Check(p, dbOk, countOk, getOk)
        \/ \E detailOk \in BOOLEAN, d \in UpdateDates, dbOk \in BOOLEAN, textsOk \in BOOLEAN :
              HR1Upsert(p, detailOk, d, dbOk, textsOk, 0)
        \/ \E getOk \in BOOLEAN : HR1Finish(p, getOk)
        \/ Return(p)

SpecBills == Init /\ [][NextBills]_vars

\* ---- concurrent diff requests over an ingested store: the versions the
\* ingestor has stored for H.R. 1, each of a content not stored before
IngestedRow(content) ==
    [BillID |-> 1, VersionCode |-> "Introduced in House",
     ContentHash |-> ComputeHash(content), TextContent |-> content]

IngestedTables ==
    UNION {{[i \in 1..n |-> IngestedRow(f[i])] :
              f \in {g \in [1..n -> Contents] : \A i, j \in 1..n : g[i] = g[j] => i = j}} :
           n \in 1..MaxVersions}

InitDiff ==
    /\ bills = <<[key |-> HR1Key, UpdateDate |-> "2025-01-03"]>>
    /\ versions \in IngestedTables
    /\ deltas = <<>>
    /\ engineCalls = [pr \in VersionIDs \X VersionIDs |-> 0]
    /\ procs = [p \in Procs |-> IdleProc]

NextDiff ==
    \E p \in Procs :
        \/ ComputeDiffStep(p)
        \/ Return(p)

SpecDiff == InitDiff /\ [][NextDiff]_vars

\* ---- concurrent diff requests whose callers may go away, over a store that
\* answers: the request's context is cancelled, the handler's goroutine runs on
Cancel(p) ==
    /\ procs[p].op = "ComputeDiff"
    /\ procs[p].pc \in {"cd_lookup", "cd_compute", "cd_store"}
    /\ ~procs[p].cancelled
    /\ procs' = [procs EXCEPT ![p].cancelled = TRUE]
    /\ UNCHANGED <<bills, versions, deltas, engineCalls>>

ComputeDiffRun(p) ==
    \/ ComputeDiffLookup(p, TRUE)
    \/ ComputeDiffCompute(p)
    \/ ComputeDiffStore(p, TRUE)

NextCancel ==
    \E p \in Procs :
        \/ \E a \in VersionIDs, b \in VersionIDs : ComputeDiffLoad(p, a, b, "none")
        \/ ComputeDiffRun(p)
        \/ Cancel(p)
        \/ Return(p)

SpecCancel == InitDiff /\ [][NextCancel]_vars

\* ---- the diff engine over two stored texts: diff requests, one at a time,
\* and direct calls of Compute
TxtEmpty == <<>>
TxtANL == <<"a", NL>>
TxtAC == <<"a", NL, "c">>
TxtB == <<"b">>
TxtDashes == <<"-", "-", "b">>
TxtPluses == <<"a", NL, "+", "+">>
TxtANLNL == <<"a", NL, NL>>
TxtLongXY ==
    <<"x", NL, "c", NL, "c", NL, "c", NL, "c", NL, "c", NL, "c", NL, "c", NL, "y">>
TxtLongZW ==
    <<"z", NL, "c", NL, "c", NL, "c", NL, "c", NL, "c", NL, "c", NL, "c", NL, "w">>
EngineTexts ==
    {TxtEmpty, TxtA, TxtANL, TxtAB, TxtAC, TxtB, TxtDashes, TxtPluses, TxtANLNL,
     TxtLongXY, TxtLongZW}

\* a call of diff_engine.Compute on the texts of two stored versions
EngineCompute(p, fromVersionID, toVersionID) ==
    /\ procs[p].pc = "idle"
    /\ fromVersionID <= Len(versions)
    /\ toVersionID <= Len(versions)
    /\ procs' = [procs EXCEPT ![p] =
          [IdleProc EXCEPT !.op = "Compute", !.pc = "done",
                           !.from = fromVersionID, !.to = toVersionID,
                           !.fromVersion = versions[fromVersionID],
                           !.toVersion = versions[toVersionID],
                           !.delta = Compute(versions[fromVersionID].TextContent,
                                             versions[toVersionID].TextContent),
                           !.ret = [ok |-> TRUE, err |-> "none"]]]
    /\ UNCHANGED <<bills, versions, deltas, engineCalls>>

InitEngine ==
    /\ bills = <<[key |-> HR1Key, UpdateDate |-> "2025-01-03"]>>
    /\ \E a, b \in EngineTexts : versions = <<IngestedRow(a), IngestedRow(b)>>
    /\ deltas = <<>>
    /\ engineCalls = [pr \in VersionIDs \X VersionIDs |-> 0]
    /\ procs = [p \in Procs |-> IdleProc]

NextEngine ==
    \E p \in Procs :
        /\ Quiet(p)
        /\ \/ ComputeDiffStep(p)
           \/ \E i, j \in VersionIDs : EngineCompute(p, i, j)
           \/ Return(p)

SpecEngine == InitEngine /\ [][NextEngine]_vars

\* ------------------------------------------------------------------- claims
IsComputeDiff(p) == procs[p].op = "ComputeDiff"
Returned(p) == procs[p].pc = "done" /\ procs[p].ret.ok
SamePair(p, q) == procs[p].from = procs[q].from /\ procs[p].to = procs[q].to
IsApproximate(resp) == "isApproximate" \in DOMAIN resp /\ resp.isApproximate = TRUE

\* C1: whatever the number of concurrent ComputeDiff callers of one
\* (fromVersionId, toVersionId), the diff engine is invoked at most once for
\* that pair over the whole run.
C1_EngineAtMostOncePerPair ==
    \A pr \in DOMAIN engineCalls : engineCalls[pr] <= 1

\* C2: two ComputeDiff calls of the same pair of versions within the size
\* limit, in any interleaving, return identical responses and leave exactly
\* one deltas row for the pair.
C2_ConcurrentCallsIdentical ==
    \A p, q \in Procs :
        ( /\ p # q
          /\ IsComputeDiff(p) /\ IsComputeDiff(q)
          /\ Returned(p) /\ Returned(q)
          /\ SamePair(p, q)
          /\ ~TooLarge(procs[p].fromVersion, procs[p].toVersion) )
        => /\ procs[p].ret = procs[q].ret
           /\ Cardinality(DeltaRows(procs[p].from, procs[p].to)) = 1

\* C3: a ComputeDiff(B, A) that begins when the row of ComputeDiff(A, B) is
\* stored is served from that row: it neither runs the diff engine nor gets
\* to store a second row for {A, B}.
C3_ReversePairServedFromCache ==
    \A p \in Procs :
        (IsComputeDiff(p) /\ procs[p].sawReverse /\ procs[p].from # procs[p].to)
        => procs[p].pc # "cd_store"

\* C4: the response of a call served from the cache is the response of the
\* call that computed the delta: the same counts, lines and segments.
C4_CachedResponseUnchanged ==
    [][\A p \in Procs :
          (IsComputeDiff(p) /\ procs[p].pc = "cd_lookup" /\ procs'[p].pc = "done")
          => procs'[p].ret =
                ComputedResponse(ComputeWordLevel(procs[p].fromVersion.TextContent,
                                                  procs[p].toVersion.TextContent),
                                 procs[p].fromVersion.VersionCode,
                                 procs[p].toVersion.VersionCode)]_vars

\* C5: a failure of the store during the cache lookup or the cache write makes
\* ComputeDiff return an error: a lookup that fails while the row is stored is
\* not treated as a miss, and a delta that was not stored is not returned as a
\* success.
C5_StoreFailureSurfaces ==
    [][\A p \in Procs :
          /\ (IsComputeDiff(p) /\ procs[p].pc = "cd_lookup"
                /\ DeltaRows(procs[p].from, procs[p].to) # {})
             => procs'[p].pc # "cd_compute"
          /\ (IsComputeDiff(p) /\ procs[p].pc = "cd_store" /\ procs'[p].pc = "done"
                /\ deltas' = deltas)
             => ~procs'[p].ret.ok]_vars

\* C6: when a version's text is above the size limit, the diff engine is not
\* run for the pair and the response is marked isApproximate = true.
C6_OversizeMarkedApproximate ==
    \A p \in Procs :
        ( /\ IsComputeDiff(p) /\ Returned(p)
          /\ TooLarge(procs[p].fromVersion, procs[p].toVersion) )
        => /\ engineCalls[<<procs[p].from, procs[p].to>>] = 0
           /\ IsApproximate(procs[p].ret)

\* C7: a ComputeDiff that begins when the delta of its pair is stored (the
\* second of two sequential calls) does not run the diff engine.
C7_SecondCallSkipsEngine ==
    \A p \in Procs :
        (IsComputeDiff(p) /\ procs[p].sawRow) => procs[p].pc # "cd_store"

C9_NoDuplicateHashPerBill ==
    \A i, j \in 1..Len(versions) :
        (versions[i].BillID = versions[j].BillID
           /\ versions[i].ContentHash = versions[j].ContentHash) => i = j

\* C10: no step of upsertBill, fetchAndStoreVersion, FetchAndStoreHR1,
\* ComputeDiff or GetBillWithVersions changes or removes a stored Version.
C10_VersionsImmutable ==
    [][\A i \in 1..Len(versions) : i <= Len(versions') /\ versions'[i] = versions[i]]_vars

\* with two versions and a delta stored, upsertBill has updated the bill
C10_Witness ==
    /\ Len(versions) >= 2
    /\ Len(deltas) >= 1
    /\ \E p \in Procs : /\ procs[p].op = "upsertBill"
                        /\ Returned(p)
                        /\ procs[p].ret.updated

\* ---- the diff engine's results
\* the process holds a Delta the diff engine returned
HoldsWordLevel(p) == IsComputeDiff(p) /\ procs[p].pc = "cd_store"
HoldsCompute(p) == procs[p].op = "Compute" /\ procs[p].pc = "done"
HoldsDelta(p) == HoldsWordLevel(p) \/ HoldsCompute(p)
FromText(p) == procs[p].fromVersion.TextContent
ToText(p) == procs[p].toVersion.TextContent
Newlines(text) == Cardinality({i \in 1..Len(text) : text[i] = NL})

\* the texts of the changes of a hunk that are not of the given type
ContentsBut(lines, type) ==
    LET Kept(c) == c.Type # type
        kept == SelectSeq(lines, Kept)
    IN  [i \in 1..Len(kept) |-> kept[i].Content]

ContentsOf(lines, type) ==
    LET Kept(c) == c.Type = type
        kept == SelectSeq(lines, Kept)
    IN  [i \in 1..Len(kept) |-> kept[i].Content]

\* the hunks, in order, cover regions of src and dst: each hunk's unchanged
\* and deleted lines are a region of src, its unchanged and inserted lines the
\* region of dst at the same place, and outside the regions src and dst agree
RECURSIVE HunksApply(_, _, _)
HunksApply(hunks, src, dst) ==
    IF hunks = <<>> THEN src = dst
    ELSE LET old == ContentsBut(Head(hunks).Lines, ChangeInsert)
             new == ContentsBut(Head(hunks).Lines, ChangeDelete)
         IN  \E k \in 0..Len(src) :
                /\ k + Len(old) <= Len(src)
                /\ k + Len(new) <= Len(dst)
                /\ SubSeq(src, 1, k) = SubSeq(dst, 1, k)
                /\ SubSeq(src, k + 1, k + Len(old)) = old
                /\ SubSeq(dst, k + 1, k + Len(new)) = new
                /\ HunksApply(Tail(hunks),
                              SubSeq(src, k + Len(old) + 1, Len(src)),
                              SubSeq(dst, k + Len(new) + 1, Len(dst)))

\* C11: for stored deltas of a pair in both directions, the deletion count of
\* a->b is the insertion count of b->a and the insertion count of a->b is the
\* deletion count of b->a, also when lines begin with '-' or '+'.
C11_SwapSymmetry ==
    \A i, j \in 1..Len(deltas) :
        (deltas[i].VersionAID = deltas[j].VersionBID
           /\ deltas[i].VersionBID = deltas[j].VersionAID)
        => /\ deltas[i].Deletions = deltas[j].Insertions
           /\ deltas[i].Insertions = deltas[j].Deletions

\* the lines of a text as go-udiff takes them, without their terminators
StripNL(line) == IF HasSuffixNL(line) THEN SubSeq(line, 1, Len(line) - 1) ELSE line
TextLines(text) ==
    LET lines == splitLines(text) IN [i \in 1..Len(lines) |-> StripNL(lines[i])]

\* C12: the hunks of a computed Delta reproduce the texts: in every hunk the
\* unchanged and inserted lines are a region of the destination, the unchanged
\* and deleted lines the region of the source, and no changed line of either
\* text lies outside the hunks.  The lines of a text are its strings.Split
\* tokens or, where that fits the Delta, its lines without a trailing empty
\* token.
C12_HunksReproduceTexts ==
    \A p \in Procs :
        HoldsWordLevel(p)
        => \/ HunksApply(procs[p].delta.Hunks, Split(FromText(p)), Split(ToText(p)))
           \/ HunksApply(procs[p].delta.Hunks, TextLines(FromText(p)), TextLines(ToText(p)))

\* C13: in every Delta the diff engine returns, Insertions, Deletions and
\* Unchanged are the numbers of insert, delete and unchanged changes held in
\* its Hunks.
C13_CountsMatchHunks ==
    \A p \in Procs :
        HoldsDelta(p)
        => LET changes == HunkChanges(procs[p].delta.Hunks)
           IN  /\ procs[p].delta.Insertions = Len(ContentsOf(changes, ChangeInsert))
               /\ procs[p].delta.Deletions = Len(ContentsOf(changes, ChangeDelete))
               /\ procs[p].delta.Unchanged = Len(ContentsOf(changes, ChangeUnchanged))

BothEmpty(p) == FromText(p) = <<>> /\ ToText(p) = <<>>
NoChangedLine(hunk) == \A i \in 1..Len(hunk.Lines) : hunk.Lines[i].Type = ChangeUnchanged

C16_EmptyVsTextAllInserted ==
    \A p \in Procs :
        (HoldsDelta(p) /\ FromText(p) = <<>> /\ ToText(p) # <<>>)
        => /\ procs[p].delta.Deletions = 0
           /\ procs[p].delta.Unchanged = 0
           /\ procs[p].delta.Insertions = Newlines(ToText(p)) + 1

\* the indexes at which two line sequences of one length differ
DiffersAt(la, lb) == {i \in 1..Len(la) : la[i] # lb[i]}
OneLineReplaced(la, lb) == Len(la) = Len(lb) /\ Cardinality(DiffersAt(la, lb)) = 1

\* C17: when b is a with exactly one line replaced by a different line, the
\* Delta has exactly one Hunk, holding exactly one deletion with the old line,
\* exactly one insertion with the new line, and as unchanged the common lines
\* within the context window.
C17_OneLineReplaced ==
    \A p \in Procs :
        LET la == splitLines(FromText(p))
            lb == splitLines(ToText(p))
        IN  (HoldsWordLevel(p) /\ OneLineReplaced(la, lb))
            => LET k == CHOOSE i \in DiffersAt(la, lb) : TRUE
                   lo == Max2(1, k - contextLines)
                   hi == IF k + contextLines <= Len(la) THEN k + contextLines ELSE Len(la)
                   common == SubSeq(la, lo, k - 1) \o SubSeq(la, k + 1, hi)
                   hunks == procs[p].delta.Hunks
               IN  /\ Len(hunks) = 1
                   /\ ContentsOf(hunks[1].Lines, ChangeDelete) = <<StripNL(la[k])>>
                   /\ ContentsOf(hunks[1].Lines, ChangeInsert) = <<StripNL(lb[k])>>
                   /\ ContentsOf(hunks[1].Lines, ChangeUnchanged)
                        = [i \in 1..Len(common) |-> StripNL(common[i])]

\* C18: insertions + deletions is the minimum edit-script length over the
\* lines of the two texts: deletions = |a| - LCS(a, b) and
\* insertions = |b| - LCS(a, b).
C18_MinimalEditScript ==
    \A p \in Procs :
        (HoldsDelta(p) /\ FromText(p) # ToText(p))
        => LET la == splitLines(FromText(p))
               lb == splitLines(ToText(p))
           IN  /\ procs[p].delta.Deletions = Len(la) - LCS(la, lb)
               /\ procs[p].delta.Insertions = Len(lb) - LCS(la, lb)

\* C19: a ComputeDiff whose caller has abandoned the request still runs to
\* completion and stores its delta: no step of a cancelled call ends it with
\* an error, and once the diff engine has run its next step writes the row of
\* its pair and returns the response.
C19_CancelledCallStores ==
    [][\A p \in Procs :
          (procs[p].cancelled /\ procs'[p] # procs[p])
          => /\ procs'[p].pc = "done" => procs'[p].ret.ok
             /\ procs[p].pc = "cd_store"
                => /\ deltas' = Append(deltas, [VersionAID |-> procs[p].from,
                                                VersionBID |-> procs[p].to,
                                                Insertions |-> procs[p].delta.Insertions,
                                                Deletions |-> procs[p].delta.Deletions])
                   /\ procs'[p].pc = "done"]_vars

\* a cancelled call has returned its response and the row of its pair is stored
C19_Witness ==
    \E p \in Procs :
        /\ procs[p].cancelled
        /\ Returned(p)
        /\ DeltaRows(procs[p].from, procs[p].to) # {}

\* C20: after any interleaving of upsertBill and FetchAndStoreHR1, the bills
\* table holds at most one row per (Congress, BillNumber, BillType).
C20_OneBillPerKey ==
    \A key \in BillKeys : Cardinality(BillByKey(key)) <= 1

\* upsertBill found no bill and is about to create it while FetchAndStoreHR1,
\* which found none either, has created the row
C20_Witness ==
    \E p, q \in Procs :
        /\ procs[p].op = "upsertBill" /\ procs[p].pc = "ub_write" /\ ~procs[p].existing
        /\ procs[q].op = "FetchAndStoreHR1" /\ procs[q].pc = "hr_loop" /\ ~procs[q].existing
        /\ Len(bills) = 1

\* H.R. 1 is cached: its bill row is stored with at least one version
HR1Cached ==
    \E b \in BillByKey(HR1Key) : VersionsOfBill(b) # {}

\* C22: FetchAndStoreHR1 contacts Congress.gov only when H.R. 1 is not cached:
\* a call that begins while the bill row is stored with at least one version
\* returns at once, with the stored bill and its versions unless reading them
\* fails, without a Congress.gov request and without a write; a call that
\* begins otherwise goes on to fetch the bill from Congress.gov.
C22_CachedHR1NotFetched ==
    [][\A p \in Procs :
          (procs[p].pc = "idle" /\ procs'[p].op = "FetchAndStoreHR1")
          => IF HR1Cached
             THEN /\ procs'[p].pc = "done"
                  /\ procs'[p].ret.ok
                     => procs'[p].ret = GetBillWithVersions(First(BillByKey(HR1Key)))
                  /\ UNCHANGED <<bills, versions, deltas>>
             ELSE procs'[p].pc = "hr_upsert"]_vars

\* ---------------------------------------------------------------- SearchBills
\* "Set pagination defaults": the literals of the three tests
defaultLimit == 20
maxLimit == 100

\* a limit that is passed on without the upper cap
EffectiveLimitNoCap(limit) ==
    IF limit <= 0 THEN defaultLimit ELSE limit

EffectiveLimit(limit) ==
    LET l == IF limit <= 0 THEN defaultLimit ELSE limit
    IN  IF l > maxLimit THEN maxLimit ELSE l

EffectiveOffset(offset) == IF offset < 0 THEN 0 ELSE offset

\* the filters on columns the model keeps: zero values filter nothing
MatchingBills(params) ==
    {i \in 1..Len(bills) :
        /\ params.Congress > 0 => bills[i].key.Congress = params.Congress
        /\ params.BillType # "" => bills[i].key.BillType = params.BillType}

\* update_date values in ascending order (ISO dates compare as strings)
DateRank(d) == IF d = "2025-01-03" THEN 1 ELSE IF d = "2025-02-01" THEN 2 ELSE 0

\* Order("update_date DESC"): rows of equal date come in any order, here by id
RECURSIVE OrderByUpdateDateDesc(_)
OrderByUpdateDateDesc(rows) ==
    IF rows = {} THEN <<>>
    ELSE LET top == CHOOSE i \in rows :
                        \A j \in rows :
                            \/ DateRank(bills[i].UpdateDate) > DateRank(bills[j].UpdateDate)
                            \/ /\ DateRank(bills[i].UpdateDate) = DateRank(bills[j].UpdateDate)
                               /\ i <= j
         IN  <<top>> \o OrderByUpdateDateDesc(rows \ {top})

\* Limit(limit).Offset(offset) of an ordered result
Page(rows, limit, offset) ==
    SubSeq(rows, offset + 1, IF offset + limit < Len(rows) THEN offset + limit ELSE Len(rows))

BillResponse(i) ==
    [ID |-> i, Congress |-> bills[i].key.Congress, BillNumber |-> bills[i].key.BillNumber,
     BillType |-> bills[i].key.BillType, UpdateDate |-> bills[i].UpdateDate]

\* the whole handler: defaults, count, page, response
SearchBills(p, params, countOk, findOk) ==
    /\ procs[p].pc = "idle"
    /\ LET me == [IdleProc EXCEPT !.op = "SearchBills", !.params = params]
           limit == EffectiveLimit(params.Limit)
           offset == EffectiveOffset(params.Offset)
           matching == MatchingBills(params)
           page == Page(OrderByUpdateDateDesc(matching), limit, offset)
       IN  procs' = [procs EXCEPT ![p] =
               [me EXCEPT !.pc = "done",
                          !.ret = IF ~countOk THEN Err("failed to count bills")
                                  ELSE IF ~findOk THEN Err("failed to search bills")
                                  ELSE [ok |-> TRUE,
                                        Bills |-> [k \in 1..Len(page) |-> BillResponse(page[k])],
                                        Total |-> Cardinality(matching),
                                        Limit |-> limit,
                                        Offset |-> offset]]]
    /\ UNCHANGED <<bills, versions, deltas, engineCalls>>

\* ---- searches, one at a time, over a store of three ingested bills
SearchTable ==
    <<[key |-> HR1Key, UpdateDate |-> "2025-02-01"],
      [key |-> [Congress |-> 119, BillType |-> "s", BillNumber |-> 2], UpdateDate |-> "2025-01-03"],
      [key |-> [Congress |-> 118, BillType |-> "hr", BillNumber |-> 3], UpdateDate |-> "2025-02-01"]>>

SearchLimits == {0 - 1, 0, 1, 2, defaultLimit, maxLimit, maxLimit + 1}
SearchOffsets == {0 - 1, 0, 1, 3}
SearchParams ==
    [Congress : {0, 119}, BillType : {"", "hr"}, Limit : SearchLimits, Offset : SearchOffsets]

InitSearch ==
    /\ bills = SearchTable
    /\ versions = <<>>
    /\ deltas = <<>>
    /\ engineCalls = [pr \in VersionIDs \X VersionIDs |-> 0]
    /\ procs = [p \in Procs |-> IdleProc]

NextSearch ==
    \E p \in Procs :
        /\ Quiet(p)
        /\ \/ \E params \in SearchParams, countOk \in BOOLEAN, findOk \in BOOLEAN :
                 SearchBills(p, params, countOk, findOk)
           \/ Return(p)

SpecSearch == InitSearch /\ [][NextSearch]_vars

IsSearch(p) == procs[p].op = "SearchBills" /\ Returned(p)

\* C23: SearchBills always uses an effective limit in 1..100 and an offset
\* >= 0: a limit <= 0 becomes 20, a limit > 100 becomes 100, a negative offset
\* becomes 0, any other value is kept, the returned Limit and Offset are these
\* effective values and the returned page is cut with them.
C23_EffectiveLimitAndOffset ==
    \A p \in Procs :
        IsSearch(p)
        => LET req == procs[p].params
               res == procs[p].ret
               all == OrderByUpdateDateDesc(MatchingBills(req))
           IN  /\ res.Limit \in 1..100
               /\ res.Offset >= 0
               /\ req.Limit <= 0 => res.Limit = 20
               /\ req.Limit > 100 => res.Limit = 100
               /\ req.Limit \in 1..100 => res.Limit = req.Limit
               /\ res.Offset = (IF req.Offset < 0 THEN 0 ELSE req.Offset)
               /\ Len(res.Bills) <= res.Limit
               /\ Len(res.Bills) + res.Offset <= (IF Len(all) > res.Offset THEN Len(all) ELSE res.Offset)
               /\ \A k \in 1..Len(res.Bills) : res.Bills[k].ID = all[res.Offset + k]

\* a search asked for more than the maximum, from a negative offset, has
\* returned the whole table
C23_Witness ==
    \E p \in Procs :
        /\ IsSearch(p)
        /\ procs[p].params.Limit > maxLimit /\ procs[p].params.Offset < 0
        /\ Len(procs[p].ret.Bills) = Len(bills)

\* the changes of the hunks that carry a line of the source (destination) text
SourceChanges(hunk) ==
    LET Kept(c) == c.Type # ChangeInsert IN SelectSeq(hunk.Lines, Kept)
DestChanges(hunk) ==
    LET Kept(c) == c.Type # ChangeDelete IN SelectSeq(hunk.Lines, Kept)

\* C24: in every hunk of a computed delta, each change's LineA (LineB) is the
\* number of a line of the source (destination) text that holds the change's
\* content, and StartA (StartB) is the number of the hunk's first source
\* (destination) line, for hunks that start after line 1 and for second and
\* later hunks as well.
C24_LineNumbersTrue ==
    \A p \in Procs :
        HoldsWordLevel(p)
        => LET la == Split(FromText(p))
               lb == Split(ToText(p))
               hunks == procs[p].delta.Hunks
           IN  \A h \in 1..Len(hunks) :
                  LET src == SourceChanges(hunks[h])
                      dst == DestChanges(hunks[h])
                  IN  /\ \A k \in 1..Len(src) :
                            /\ src[k].LineA \in 1..Len(la)
                            /\ la[src[k].LineA] = src[k].Content
                      /\ \A k \in 1..Len(dst) :
                            /\ dst[k].LineB \in 1..Len(lb)
                            /\ lb[dst[k].LineB] = dst[k].Content
                      /\ src # <<>> => hunks[h].StartA = src[1].LineA
                      /\ dst # <<>> => hunks[h].StartB = dst[1].LineB

\* C25: when either text exceeds the size limit ComputeDiff leaves the deltas
\* table unchanged: no row of the table is of a pair with an oversize text, so
\* no call is served the placeholder counts from the cache.
C25_PlaceholderNeverStored ==
    \A i \in 1..Len(deltas) :
        /\ ~TooLarge(versions[deltas[i].VersionAID], versions[deltas[i].VersionBID])
        /\ ~(/\ deltas[i].Insertions = PlaceholderInsertions
             /\ deltas[i].Deletions = PlaceholderDeletions)

\* a call of an oversize pair has returned the placeholder while the table
\* holds the row of another pair
C25_Witness ==
    \E p \in Procs :
        /\ IsComputeDiff(p) /\ Returned(p)
        /\ TooLarge(procs[p].fromVersion, procs[p].toVersion)
        /\ procs[p].ret.Insertions = PlaceholderInsertions
        /\ Len(deltas) > 0

IsUpsertBill(p) == procs[p].op = "upsertBill"

\* C26: upsertBill does not fail when fetching or storing the text version
\* fails: every return from fetchAndStoreVersion gives a nil error, the
\* created and updated flags of the bill write and versionCreated only when a
\* version row was stored, and the bill row written before stays in place
\* with the UpdateDate of the API.
C26_VersionFailureNotFatal ==
    [][\A p \in Procs :
          ( /\ IsUpsertBill(p)
            /\ procs[p].pc \in {"fv_fetch", "fv_create"}
            /\ procs'[p].pc = "done" )
          => /\ procs'[p].ret.ok
             /\ procs'[p].ret.created = ~procs[p].existing
             /\ procs'[p].ret.updated =
                   (procs[p].existing
                    /\ procs[p].existingUpdateDate # procs[p].apiBill.UpdateDate)
             /\ procs'[p].ret.versionCreated = (versions' # versions)
             /\ procs'[p].ret.versionErr => versions' = versions
             /\ bills' = bills
             /\ \E i \in BillByKey(procs[p].apiBill.key) :
                   bills[i].UpdateDate = procs[p].apiBill.UpdateDate]_vars

\* upsertBill has created the bill and returned without an error although its
\* text version could not be fetched or stored
C26_Witness ==
    \E p \in Procs :
        /\ IsUpsertBill(p) /\ Returned(p)
        /\ procs[p].ret.versionErr /\ procs[p].ret.created
        /\ BillByKey(procs[p].apiBill.key) # {}
        /\ VersionsOfBill(procs[p].billID) = {}

\* C27: for a bill that already exists, upsertBill writes the bill row only
\* when the UpdateDate of the API differs from the stored one, and then sets
\* the row to the API's date; when they are equal the row is left unchanged
\* and the call reports created = false and updated = false.
C27_ExistingBillWrittenOnChange ==
    [][\A p \in Procs :
          ( /\ IsUpsertBill(p)
            /\ procs[p].existing
            /\ procs'[p] # procs[p] )
          => LET api == procs[p].apiBill.UpdateDate
                 same == bills[procs[p].billID].UpdateDate = api
             IN  /\ procs[p].pc = "ub_write"
                    => IF same
                       THEN /\ bills' = bills
                            /\ procs'[p].pc = "fv_fetch"
                            /\ ~procs'[p].created /\ ~procs'[p].updated
                       ELSE \/ /\ bills' = [bills EXCEPT ![procs[p].billID].UpdateDate = api]
                               /\ ~procs'[p].created /\ procs'[p].updated
                            \/ /\ bills' = bills
                               /\ procs'[p].pc = "done" /\ ~procs'[p].ret.ok
                 /\ (procs[p].pc \in {"fv_fetch", "fv_create"} /\ procs'[p].pc = "done")
                    => /\ bills' = bills
                       /\ ~procs'[p].ret.created
                       /\ procs'[p].ret.updated = procs[p].updated]_vars

\* upsertBill has returned for an existing bill whose UpdateDate was the
\* stored one, with neither flag set
C27_Witness ==
    \E p \in Procs :
        /\ IsUpsertBill(p) /\ Returned(p)
        /\ procs[p].existing
        /\ procs[p].existingUpdateDate = procs[p].apiBill.UpdateDate
        /\ bills[procs[p].billID].UpdateDate = procs[p].apiBill.UpdateDate
        /\ ~procs[p].ret.created /\ ~procs[p].ret.updated

\* ---------------------------------------------------------- IngestRecentBills
\* FetchRecentBills: an error ends the run, a list of n bills starts the loop
IngestFetchRecentBills(p, fetchOk, n) ==
    /\ procs[p].pc = "idle"
    /\ procs[p].run.pc = "idle"
    /\ procs' = [procs EXCEPT ![p].run =
          IF fetchOk
          THEN [NoRun EXCEPT !.pc = "loop", !.BillsFetched = n, !.remaining = n]
          ELSE [NoRun EXCEPT !.pc = "done", !.err = "ingestor: failed to fetch recent bills"]]
    /\ UNCHANGED <<bills, versions, deltas, engineCalls>>

\* a loop body that gives up the run at the first bill that fails
IngestCollectAbort(p) ==
    /\ procs[p].run.pc = "loop"
    /\ procs[p].op = "upsertBill"
    /\ procs[p].pc = "done"
    /\ LET run == procs[p].run
           res == procs[p].ret
           next == IF ~res.ok
                   THEN [run EXCEPT !.pc = "done", !.processed = @ + 1,
                                    !.Errors = Append(@, res.err)]
                   ELSE [run EXCEPT !.remaining = @ - 1, !.processed = @ + 1,
                                    !.BillsCreated = IF res.created THEN @ + 1 ELSE @,
                                    !.BillsUpdated = IF res.updated THEN @ + 1 ELSE @,
                                    !.VersionsCreated = IF res.versionCreated THEN @ + 1 ELSE @]
       IN  procs' = [procs EXCEPT ![p] =
                        [IdleProc EXCEPT !.run = next, !.main = procs[p].main]]
    /\ UNCHANGED <<bills, versions, deltas, engineCalls>>

\* the loop body after upsertBill has returned: an error is appended and the
\* loop continues, otherwise the flags are counted
IngestCollect(p) ==
    /\ procs[p].run.pc = "loop"
    /\ procs[p].op = "upsertBill"
    /\ procs[p].pc = "done"
    /\ LET run == procs[p].run
           res == procs[p].ret
           next == IF ~res.ok
                   THEN [run EXCEPT !.remaining = @ - 1, !.processed = @ + 1,
                                    !.Errors = Append(@, res.err)]
                   ELSE [run EXCEPT !.remaining = @ - 1, !.processed = @ + 1,
                                    !.BillsCreated = IF res.created THEN @ + 1 ELSE @,
                                    !.BillsUpdated = IF res.updated THEN @ + 1 ELSE @,
                                    !.VersionsCreated = IF res.versionCreated THEN @ + 1 ELSE @]
       IN  procs' = [procs EXCEPT ![p] =
                        [IdleProc EXCEPT !.run = next, !.main = procs[p].main]]
    /\ UNCHANGED <<bills, versions, deltas, engineCalls>>

\* the range loop is over: return result, nil
IngestReturn(p) ==
    /\ procs[p].run.pc = "loop"
    /\ procs[p].run.remaining = 0
    /\ procs[p].pc = "idle"
    /\ procs' = [procs EXCEPT ![p].run.pc = "done"]
    /\ UNCHANGED <<bills, versions, deltas, engineCalls>>

\* runIngestion logs the result, or hands on the error, and returns
runIngestionReturn(p) ==
    /\ procs[p].run.pc = "done"
    /\ procs' = [procs EXCEPT ![p].run = NoRun]
    /\ UNCHANGED <<bills, versions, deltas, engineCalls>>

\* the steps of upsertBill for the next bill of the loop
IngestUpsertBill(p, contents) ==
    /\ procs[p].run.pc = "loop"
    /\ procs[p].run.remaining > 0
    /\ UpsertBillStep(p, contents)

\* ---- ingestion runs, one at a time
RunQuiet(p) ==
    \A q \in Procs \ {p} : procs[q].pc = "idle" /\ procs[q].run.pc = "idle"

NextRun ==
    \E p \in Procs :
        /\ RunQuiet(p)
        /\ \/ \E fetchOk \in BOOLEAN, n \in 0..MaxFetched : IngestFetchRecentBills(p, fetchOk, n)
           \/ IngestUpsertBill(p, SmallContents)
           \/ IngestCollect(p)
           \/ IngestReturn(p)
           \/ runIngestionReturn(p)

SpecRun == Init /\ [][NextRun]_vars

\* C28: IngestRecentBills processes every fetched bill: an error on one bill
\* is appended to Errors and the remaining bills are still processed, every
\* processed bill is counted as created, as updated, as an error or as
\* neither and never as two of them, and at the end BillsCreated +
\* BillsUpdated + len(Errors) <= BillsFetched and VersionsCreated <=
\* BillsFetched - len(Errors).
C28_EveryFetchedBillProcessed ==
    \A p \in Procs :
        LET run == procs[p].run
        IN  /\ run.pc = "loop"
               => /\ run.processed + run.remaining = run.BillsFetched
                  /\ run.BillsCreated + run.BillsUpdated + Len(run.Errors) <= run.processed
                  /\ run.VersionsCreated <= run.processed - Len(run.Errors)
            /\ (run.pc = "done" /\ run.err = "none")
               => /\ run.processed = run.BillsFetched
                  /\ run.BillsCreated + run.BillsUpdated + Len(run.Errors) <= run.BillsFetched
                  /\ run.VersionsCreated <= run.BillsFetched - Len(run.Errors)

\* a run of two bills has ended: the first bill failed, the second was
\* created with its version
C28_Witness ==
    \E p \in Procs :
        /\ procs[p].run.pc = "done"
        /\ procs[p].run.BillsFetched = 2
        /\ Len(procs[p].run.Errors) = 1
        /\ procs[p].run.BillsCreated = 1
        /\ procs[p].run.VersionsCreated = 1

\* ---- GET /api/v1/bills/hr1 requests alone, one at a time
NextHR1 ==
    \E p \in Procs :
        /\ Quiet(p)
        /\ \/ HR1Step(p, Contents)
           \/ Return(p)

SpecHR1 == Init /\ [][NextHR1]_vars

VersionCodes == {extractVersionCode(t) : t \in TextTypes}

\* C29: after any sequence of FetchAndStoreHR1 calls, one after the other,
\* the versions table holds at most one row per (bill, version code): a text
\* version whose code is stored for the bill is skipped, whatever its content.
C29_OneVersionPerCode ==
    \A b \in 1..Len(bills), code \in VersionCodes :
        Cardinality(VersionByCode(b, code)) <= 1

\* ------------------------------------------------------------- ingestor main
\* the ingestor runs as one process
Ingestor == 1

InRun(m) == m.pc \in {"single", "initial", "tick"}

\* flags are parsed, the context and the signal goroutine are set up and the
\* first call of runIngestion is about to be made
MainStart(p, singleRun) ==
    /\ procs[p].pc = "idle"
    /\ procs[p].run.pc = "idle"
    /\ procs[p].main.pc = "off"
    /\ procs' = [procs EXCEPT ![p].main =
          [NoMain EXCEPT !.pc = IF singleRun THEN "single" ELSE "initial",
                         !.singleRun = singleRun]]
    /\ UNCHANGED <<bills, versions, deltas, engineCalls>>

\* SIGINT or SIGTERM is delivered to the running process: the channel of
\* size one takes it while it is empty
Signal(p) ==
    /\ procs[p].main.pc \notin {"off", "exited"}
    /\ ~procs[p].main.signalled
    /\ procs' = [procs EXCEPT ![p].main.signalled = TRUE, ![p].main.sigChan = TRUE]
    /\ UNCHANGED <<bills, versions, deltas, engineCalls>>

\* a goroutine that takes the signal and leaves the context alone
SignalHandlerNoCancel(p) ==
    /\ procs[p].main.pc \notin {"off", "exited"}
    /\ procs[p].main.handler = "waiting"
    /\ procs[p].main.sigChan
    /\ procs' = [procs EXCEPT ![p].main.sigChan = FALSE, ![p].main.handler = "done"]
    /\ UNCHANGED <<bills, versions, deltas, engineCalls>>

\* the goroutine: <-sigChan, then cancel()
SignalHandler(p) ==
    /\ procs[p].main.pc \notin {"off", "exited"}
    /\ procs[p].main.handler = "waiting"
    /\ procs[p].main.sigChan
    /\ procs' = [procs EXCEPT ![p].main.sigChan = FALSE, ![p].main.handler = "done",
                              ![p].main.cancelled = TRUE]
    /\ UNCHANGED <<bills, versions, deltas, engineCalls>>

\* the ticker puts a tick in its channel of size one
Tick(p) ==
    /\ procs[p].main.pc \in {"select", "tick"}
    /\ ~procs[p].main.tick
    /\ procs' = [procs EXCEPT ![p].main.tick = TRUE]
    /\ UNCHANGED <<bills, versions, deltas, engineCalls>>

\* runIngestion calls IngestRecentBills; with the context cancelled the
\* request to Congress.gov fails
MainFetchRecentBills(p, fetchOk, n) ==
    /\ InRun(procs[p].main)
    /\ procs[p].main.cancelled => ~fetchOk
    /\ IngestFetchRecentBills(p, fetchOk, n)

\* upsertBill inside the run; with the context cancelled its queries and its
\* request for the text fail
MainUpsertBill(p) ==
    /\ InRun(procs[p].main)
    /\ procs[p].run.pc = "loop"
    /\ procs[p].run.remaining > 0
    /\ LET oks == IF procs[p].main.cancelled THEN {FALSE} ELSE BOOLEAN
           outcomes == IF procs[p].main.cancelled THEN {"error"} ELSE {"error", "none"}
       IN  \/ \E ab \in ApiBills, dbOk \in oks : UpsertBillQuery(p, ab, dbOk)
           \/ \E dbOk \in oks : UpsertBillWrite(p, dbOk)
           \/ \E o \in outcomes : FetchVersionCheck(p, o, "Introduced in House", TxtA, TRUE)

MainCollect(p) == InRun(procs[p].main) /\ IngestCollect(p)

MainIngestReturn(p) == InRun(procs[p].main) /\ IngestReturn(p)

OneMore(runs) == IF runs = "none" THEN "one" ELSE "many"

\* runIngestion has returned: single-run mode exits, with log.Fatalf on an
\* error; continuous mode logs the error and goes to the select
MainAfterRun(p) ==
    /\ InRun(procs[p].main)
    /\ procs[p].run.pc = "done"
    /\ LET m == procs[p].main
       IN  procs' = [procs EXCEPT
              ![p].run = NoRun,
              ![p].main = IF m.singleRun
                          THEN [m EXCEPT !.pc = "exited", !.runs = OneMore(@),
                                         !.exit = IF procs[p].run.err = "none"
                                                  THEN "return" ELSE "fatal"]
                          ELSE [m EXCEPT !.pc = "select", !.runs = OneMore(@)]]
    /\ UNCHANGED <<bills, versions, deltas, engineCalls>>

\* case <-ctx.Done(): return
MainSelectDone(p) ==
    /\ procs[p].main.pc = "select"
    /\ procs[p].main.cancelled
    /\ procs' = [procs EXCEPT ![p].main.pc = "exited", ![p].main.exit = "return"]
    /\ UNCHANGED <<bills, versions, deltas, engineCalls>>

\* case <-ticker.C: runIngestion
MainSelectTick(p) ==
    /\ procs[p].main.pc = "select"
    /\ procs[p].main.tick
    /\ procs' = [procs EXCEPT ![p].main.pc = "tick", ![p].main.tick = FALSE]
    /\ UNCHANGED <<bills, versions, deltas, engineCalls>>

\* the steps of the program itself, without its environment
MainStep(p) ==
    \/ SignalHandler(p)
    \/ \E fetchOk \in BOOLEAN, n \in 0..MaxFetched : MainFetchRecentBills(p, fetchOk, n)
    \/ MainUpsertBill(p)
    \/ MainCollect(p)
    \/ MainIngestReturn(p)
    \/ MainAfterRun(p)
    \/ MainSelectDone(p)
    \/ MainSelectTick(p)

NextMain ==
    \/ \E singleRun \in BOOLEAN : MainStart(Ingestor, singleRun)
    \/ Signal(Ingestor)
    \/ Tick(Ingestor)
    \/ MainStep(Ingestor)

SpecMain == Init /\ [][NextMain]_vars

\* the scheduler lets each of the two goroutines step when it can, and a
\* select with several ready cases picks each of them sooner or later
FairMain ==
    /\ SpecMain
    /\ WF_vars(MainStep(Ingestor))
    /\ WF_vars(SignalHandler(Ingestor))
    /\ SF_vars(MainSelectDone(Ingestor))

\* C30: once SIGINT or SIGTERM has been delivered the ingestor stops, whether
\* its runs fail or not, and a process that has exited in single-run mode has
\* made exactly one ingestion run.
C30_StopsAfterSignal ==
    /\ procs[Ingestor].main.signalled ~> procs[Ingestor].main.pc = "exited"
    /\ [](procs[Ingestor].main.pc = "exited" /\ procs[Ingestor].main.singleRun
          => procs[Ingestor].main.runs = "one")

\* in continuous mode, the ingestor has exited through the select after a
\* signal and after a run that failed
C30_Witness ==
    /\ procs[Ingestor].main.pc = "exited"
    /\ ~procs[Ingestor].main.singleRun
    /\ procs[Ingestor].main.cancelled
    /\ procs[Ingestor].main.runs = "many"
    /\ bills # <<>>
====
